---- MODULE Spec2Model ----
(***************************************************************************)
(* Model of the Velixar MCP server (src/src/index.js): the HTTP client     *)
(* wrapper apiRequest, the prefetch slot _recalledMemories with            *)
(* fetchRecall, and the ListResources, ReadResource and CallTool handlers. *)
(*                                                                         *)
(* JavaScript values are tagged records; a string is a sequence of         *)
(* one-character strings, one for each UTF-16 code unit (a non-ASCII       *)
(* character is written by its code, "U2713"), so that slicing, joining    *)
(* and substring search are computed as the code computes them.  An        *)
(* object is a sequence of <<key, value>> pairs in insertion order.        *)
(***************************************************************************)
EXTENDS Integers, Sequences, FiniteSets, TLC

\* ---------------------------------------------------------------- values

Undefined == [t |-> "undefined"]
Null == [t |-> "null"]
Bool(b) == [t |-> "boolean", v |-> b]
Num(n) == [t |-> "number", v |-> n]
Str(s) == [t |-> "string", v |-> s]
Arr(a) == [t |-> "array", v |-> a]
Obj(pairs) == [t |-> "object", v |-> pairs]

\* The thrown values of the program: Error objects with a name and a message.
Err(name, message) == [name |-> name, message |-> message]

Thrown(e) == [k |-> "throw", e |-> e]
Value(v) == [k |-> "ok", v |-> v]

\* JavaScript truthiness, as tested by `if (x)`, `x || y`, `!x`, `x ? a : b`.
Truthy(x) ==
  CASE x.t = "undefined" -> FALSE
    [] x.t = "null" -> FALSE
    [] x.t = "boolean" -> x.v
    [] x.t = "number" -> x.v # 0
    [] x.t = "string" -> Len(x.v) > 0
    [] OTHER -> TRUE

\* x == null, the test behind `??`, `?.` and `!= null`.
Nullish(x) == x.t \in {"undefined", "null"}

HasKey(o, key) == o.t = "object" /\ \E i \in 1..Len(o.v) : o.v[i][1] = key

\* Property read o.key on a non-nullish value: the own property of an
\* object, undefined otherwise (no property of the prototypes is modelled
\* except length and map, which have their own operators).
Get(o, key) ==
  IF HasKey(o, key)
  THEN o.v[CHOOSE i \in 1..Len(o.v) : o.v[i][1] = key][2]
  ELSE Undefined

\* x.length on a non-nullish value
Length(x) ==
  IF x.t \in {"string", "array"} THEN Num(Len(x.v)) ELSE Get(x, "length")

\* ---------------------------------------------------------------- strings

\* The concatenation of seqs[lo..hi], by halves.
RECURSIVE ConcatRange(_, _, _)
ConcatRange(seqs, lo, hi) ==
  IF lo > hi THEN <<>>
  ELSE IF lo = hi THEN seqs[lo]
  ELSE ConcatRange(seqs, lo, (lo + hi) \div 2)
       \o ConcatRange(seqs, ((lo + hi) \div 2) + 1, hi)

Concat(seqs) == ConcatRange(seqs, 1, Len(seqs))

\* Array.prototype.join over strings.
Join(strs, sep) ==
  LET RECURSIVE j(_)
      j(i) == IF i > Len(strs) THEN <<>>
              ELSE IF i = Len(strs) THEN strs[i]
              ELSE strs[i] \o sep \o j(i + 1)
  IN j(1)

\* String.prototype.includes
Includes(s, sub) ==
  \E i \in 0..(Len(s) - Len(sub)) : SubSeq(s, i + 1, i + Len(sub)) = sub

\* String.prototype.slice(0, n) and substring(0, n) for n >= 0.
Slice(s, n) == SubSeq(s, 1, IF Len(s) < n THEN Len(s) ELSE n)

Digits == <<"0","1","2","3","4","5","6","7","8","9">>

RECURSIVE NumToStr(_)
NumToStr(n) ==
  IF n < 0 THEN <<"-">> \o NumToStr(0 - n)
  ELSE IF n < 10 THEN <<Digits[n + 1]>>
  ELSE NumToStr(n \div 10) \o <<Digits[(n % 10) + 1]>>

\* The first throw among the outcomes `outs`, or their values joined.
FirstThrowOrJoin(outs, sep) ==
  LET bad == {i \in 1..Len(outs) : outs[i].k = "throw"}
  IN IF bad # {}
     THEN outs[CHOOSE i \in bad : \A j \in bad : i <= j]
     ELSE Value(Join([i \in 1..Len(outs) |-> outs[i].v], sep))

\* Array.prototype.map with a callback that may throw, then join: `outs`
\* holds the callback's outcome on each element, each computed once; the
\* first throw wins.
MapJoin(outs, sep) ==
  CHOOSE r \in {FirstThrowOrJoin(o, sep) : o \in {outs \o <<>>}} : TRUE

\* TypeError of a conversion to a primitive that finds no method to call
\* (V8's wording).
NotPrimitive ==
  Err("TypeError", <<"C","a","n","n","o","t"," ","c","o","n","v","e","r","t"," ","o","b","j","e","c","t"," ","t","o"," ","p","r","i","m","i","t","i","v","e"," ","v","a","l","u","e">>)

\* String(x), template-literal interpolation `${x}` and the conversion of
\* an element by Array.prototype.join: the string, or the TypeError thrown.
\* An object decoded from JSON or sent by the client has no method of its
\* own: an own property toString, whatever it holds, shadows
\* Object.prototype.toString and is not callable, valueOf (own and not
\* callable, or inherited and returning the object) gives no primitive,
\* and the conversion throws.  Without an own toString the inherited one
\* gives "[object Object]".  An array is joined with commas, null and
\* undefined elements as the empty string.
RECURSIVE StringOf(_)
StringOf(x) ==
  CASE x.t = "undefined" -> Value(<<"u","n","d","e","f","i","n","e","d">>)
    [] x.t = "null" -> Value(<<"n","u","l","l">>)
    [] x.t = "boolean" -> Value(IF x.v THEN <<"t","r","u","e">> ELSE <<"f","a","l","s","e">>)
    [] x.t = "number" -> Value(NumToStr(x.v))
    [] x.t = "string" -> Value(x.v)
    [] x.t = "array" ->
         MapJoin([i \in 1..Len(x.v) |->
                    IF Nullish(x.v[i]) THEN Value(<<>>) ELSE StringOf(x.v[i])], <<",">>)
    [] OTHER -> IF HasKey(x, "toString") THEN Thrown(NotPrimitive)
                ELSE Value(<<"[","o","b","j","e","c","t"," ","O","b","j","e","c","t","]">>)

\* A template literal: `parts` holds the literal pieces and the outcomes
\* of the conversions of the interpolated values, in order; the first
\* throw wins.
Template(parts) == MapJoin(parts, <<>>)

\* -------------------------------------------------- relational comparison

\* The least number of a set of numbers that is not empty.
Least(S) == CHOOSE i \in S : \A j \in S : i <= j

\* The least index from i on of a character of s outside the set cs, or
\* Len(s) + 1.
SkipWhile(s, i, cs) ==
  Least({j \in i..Len(s) : s[j] \notin cs} \cup {Len(s) + 1})

\* StrWhiteSpaceChar of StringToNumber: white space and line terminators.
StrWhiteSpace ==
  {" ", "\t", "\n", "\r", "\f", "U0009", "U000A", "U000B", "U000C", "U000D",
   "U00A0", "U1680", "U2000", "U2001", "U2002", "U2003", "U2004", "U2005",
   "U2006", "U2007", "U2008", "U2009", "U200A", "U2028", "U2029", "U202F",
   "U205F", "U3000", "UFEFF"}

\* String.prototype.trim, as StringToNumber strips its argument.
Trim(s) ==
  SubSeq(s, SkipWhile(s, 1, StrWhiteSpace),
         0 - Least({0 - j : j \in {k \in 1..Len(s) : s[k] \notin StrWhiteSpace}} \cup {0}))

DecimalDigits == {"0","1","2","3","4","5","6","7","8","9"}
HexDigits == DecimalDigits \cup {"a","b","c","d","e","f","A","B","C","D","E","F"}

DigitValue(c) ==
  CASE c \in DecimalDigits -> CHOOSE d \in 0..9 : Digits[d + 1] = c
    [] c \in {"a", "A"} -> 10
    [] c \in {"b", "B"} -> 11
    [] c \in {"c", "C"} -> 12
    [] c \in {"d", "D"} -> 13
    [] c \in {"e", "E"} -> 14
    [] c \in {"f", "F"} -> 15

\* The number written by the digits ds in the given base.
RECURSIVE DigitsToNat(_, _)
DigitsToNat(ds, base) ==
  IF ds = <<>> THEN 0
  ELSE DigitsToNat(SubSeq(ds, 1, Len(ds) - 1), base) * base
       + DigitValue(ds[Len(ds)])

\* ds without its leading zeros.
StripZeros(ds) == SubSeq(ds, SkipWhile(ds, 1, {"0"}), Len(ds))

\* Whether the integer written by the digits sig (no leading zero) in the
\* given base exceeds n, for 0 <= n < 2^28; maxLen digits are the most a
\* number below 2^30 takes in that base.
DigitsExceed(sig, base, maxLen, n) ==
  IF Len(sig) > maxLen THEN TRUE ELSE DigitsToNat(sig, base) > n

\* Whether the literal 0x.., 0o.. or 0b.. with the digits digs, which must
\* all be digits of the base, exceeds n.
PrefixedExceeds(digs, base, digits, maxLen, n) ==
  /\ \A i \in 1..Len(digs) : digs[i] \in digits
  /\ DigitsExceed(StripZeros(digs), base, maxLen, n)

\* The digit of ds at the index i, 0 past its end.
DigitAt(ds, i) == IF i <= Len(ds) THEN DigitValue(ds[i]) ELSE 0

\* The quotient of the number with the decimal digits ds by 2^m, for
\* 1 <= m <= 8, in as many digits: the long division, where the remainder
\* carried into a digit is that of the m digits before it, 10^m being a
\* multiple of 2^m.
DividedBy(ds, m) ==
  [i \in 1..Len(ds) |->
     Digits[((DigitsToNat(SubSeq(ds, IF i > m THEN i - m ELSE 1, i - 1), 10) % 2^m) * 10
             + DigitValue(ds[i])) \div 2^m + 1]] \o <<>>

\* The quotient of the number with the decimal digits ds by 2^k, k >= 1.
RECURSIVE ShiftedRight(_, _)
ShiftedRight(ds, k) ==
  IF k <= 8 THEN DividedBy(ds, k) ELSE ShiftedRight(DividedBy(ds, 8), k - 8)

\* The k decimal digits after the point of 2^-k = 5^k / 10^k, for k >= 1.
BinaryFraction(k) ==
  SubSeq(ShiftedRight(<<"1">> \o [i \in 1..k |-> "0"], k), 2, k + 1)

\* The binary exponent of the double n, for 1 <= n < 2^28.
BinaryExponent(n) == CHOOSE e \in 0..27 : 2^e <= n /\ n < 2 * 2^e

\* The number k for which n + 2^-k lies half way between the double n and
\* the next double above it, for 1 <= n < 2^28: a double has 53
\* significant bits.
HalfUlpBits(n) == 53 - BinaryExponent(n)

\* The significant digits of 2^-1075 = 0.247..e-323, half of the least
\* double above 0 (2^-1074): the digits of 5^1075.
HalfLeastDouble ==
  <<"2","4","7","0","3","2","8","2","2","9","2","0","6","2","3","2","7","2",
    "0","8","8","2","8","4","3","9","6","4","3","4","1","1","0","6","8","6",
    "1","8","2","5","2","9","9","0","1","3","0","7","1","6","2","3","8","2",
    "2","1","2","7","9","2","8","4","1","2","5","0","3","3","7","7","5","3",
    "6","3","5","1","0","4","3","7","5","9","3","2","6","4","9","9","1","8",
    "1","8","0","8","1","7","9","9","6","1","8","9","8","9","8","2","8","2",
    "3","4","7","7","2","2","8","5","8","8","6","5","4","6","3","3","2","8",
    "3","5","5","1","7","7","9","6","9","8","9","8","1","9","9","3","8","7",
    "3","9","8","0","0","5","3","9","0","9","3","9","0","6","3","1","5","0",
    "3","5","6","5","9","5","1","5","5","7","0","2","2","6","3","9","2","2",
    "9","0","8","5","8","3","9","2","4","4","9","1","0","5","1","8","4","4",
    "3","5","9","3","1","8","0","2","8","4","9","9","3","6","5","3","6","1",
    "5","2","5","0","0","3","1","9","3","7","0","4","5","7","6","7","8","2",
    "4","9","2","1","9","3","6","5","6","2","3","6","6","9","8","6","3","6",
    "5","8","4","8","0","7","5","7","0","0","1","5","8","5","7","6","9","2",
    "6","9","9","0","3","7","0","6","3","1","1","9","2","8","2","7","9","5",
    "5","8","5","5","1","3","3","2","9","2","7","8","3","4","3","3","8","4",
    "0","9","3","5","1","9","7","8","0","1","5","5","3","1","2","4","6","5",
    "9","7","2","6","3","5","7","9","5","7","4","6","2","2","7","6","6","4",
    "6","5","2","7","2","8","2","7","2","2","0","0","5","6","3","7","4","0",
    "0","6","4","8","5","4","9","9","9","7","7","0","9","6","5","9","9","4",
    "7","0","4","5","4","0","2","0","8","2","8","1","6","6","2","2","6","2",
    "3","7","8","5","7","3","9","3","4","5","0","7","3","6","3","3","9","0",
    "0","7","9","6","7","7","6","1","9","3","0","5","7","7","5","0","6","7",
    "4","0","1","7","6","3","2","4","6","7","3","6","0","0","9","6","8","9",
    "5","1","3","4","0","5","3","5","5","3","7","4","5","8","5","1","6","6",
    "6","1","1","3","4","2","2","3","7","6","6","6","7","8","6","0","4","1",
    "6","2","1","5","9","6","8","0","4","6","1","9","1","4","4","6","7","2",
    "9","1","8","4","0","3","0","0","5","3","0","0","5","7","5","3","0","8",
    "4","9","0","4","8","7","6","5","3","9","1","7","1","1","3","8","6","5",
    "9","1","6","4","6","2","3","9","5","2","4","9","1","2","6","2","3","6",
    "5","3","8","8","1","8","7","9","6","3","6","2","3","9","3","7","3","2",
    "8","0","4","2","3","8","9","1","0","1","8","6","7","2","3","4","8","4",
    "9","7","6","6","8","2","3","5","0","8","9","8","6","3","3","8","8","5",
    "8","7","9","2","5","6","2","8","3","0","2","7","5","5","9","9","5","6",
    "5","7","5","2","4","4","5","5","5","0","7","2","5","5","1","8","9","3",
    "1","3","6","9","0","8","3","6","2","5","4","7","7","9","1","8","6","9",
    "4","8","6","6","7","9","9","4","9","6","8","3","2","4","0","4","9","7",
    "0","5","8","2","1","0","2","8","5","1","3","1","8","5","4","5","1","3",
    "9","6","2","1","3","8","3","7","7","2","2","8","2","6","1","4","5","4",
    "3","7","6","9","3","4","1","2","5","3","2","0","9","8","5","9","1","3",
    "2","7","6","6","7","2","3","6","3","2","8","1","2","5">>

\* Whether 0.a exceeds 0.b, for digits a and b that differ at the indices
\* `diff`.
FractionExceedsAt(a, b, diff) ==
  /\ diff # {}
  /\ DigitAt(a, Least(diff)) > DigitAt(b, Least(diff))

\* Whether 0.a exceeds 0.b.
FractionExceeds(a, b) ==
  FractionExceedsAt(a, b, {i \in 1..(Len(a) + Len(b)) : DigitAt(a, i) # DigitAt(b, i)})

\* Whether 0.sig * 10^point exceeds 0.tsig * 10^tpoint, neither sig nor
\* tsig starting with a zero.
ScaledExceeds(sig, point, tsig, tpoint) ==
  IF point # tpoint THEN point > tpoint ELSE FractionExceeds(sig, tsig)

\* Whether the double nearest to 0.sig * 10^point exceeds n, for
\* 0 <= n < 2^28: StringToNumber rounds the value of the literal to the
\* nearest double, to the one with the even significand when it lies half
\* way between two, and the significand of n is even, so the double
\* exceeds n just when the value exceeds the number half way to the next
\* double: n + 2^-HalfUlpBits(n), or 2^-1075 for n = 0.
RoundsAbove(sig, point, n) ==
  IF n = 0 THEN ScaledExceeds(sig, point, HalfLeastDouble, 0 - 323)
  ELSE ScaledExceeds(sig, point, NumToStr(n) \o BinaryFraction(HalfUlpBits(n)),
                     Len(NumToStr(n)))

\* Whether the number with the digits mant, of which intLen stand before
\* the point and sig are left without the leading zeros, times ten to the
\* exponent of sign expNeg and significant digits expSig, exceeds n once
\* it is rounded to a double.  An exponent of ten digits or more decides
\* alone, because a string has fewer than 2^29 characters: the number
\* overflows to Infinity or underflows to 0.
MantissaExceeds(mant, sig, intLen, expNeg, expSig, n) ==
  IF sig = <<>> THEN FALSE
  ELSE IF Len(expSig) > 9 THEN ~expNeg
  ELSE RoundsAbove(sig,
                   intLen - (Len(mant) - Len(sig))
                     + (IF expNeg THEN 0 - DigitsToNat(expSig, 10)
                        ELSE DigitsToNat(expSig, 10)),
                   n)

\* Whether the decimal number with the integer digits int, the fraction
\* digits frac and the exponent (of sign expNeg and digits expDigits)
\* exceeds n, for 0 <= n < 2^28, as a double.
DecimalExceeds(int, frac, expNeg, expDigits, n) ==
  MantissaExceeds(int \o frac, StripZeros(int \o frac), Len(int), expNeg,
                  StripZeros(expDigits), n)

\* The exponent of the literal u, if it has one: its digits from e1 on, of
\* which there must be one at least and nothing else up to the end.
ExponentExceeds(u, int, frac, hasExp, expNeg, e1, n) ==
  /\ hasExp => (e1 <= Len(u) /\ SkipWhile(u, e1, DecimalDigits) = Len(u) + 1)
  /\ DecimalExceeds(int, frac, expNeg,
                    IF hasExp THEN SubSeq(u, e1, Len(u)) ELSE <<>>, n)

\* Whether u has a sign at the index i.
HasSign(u, i) == i <= Len(u) /\ u[i] \in {"+", "-"}

\* The literal u after its mantissa, from i2 on: the end, or an exponent
\* with an optional sign.  The mantissa has a digit at least.
TailExceeds(u, int, frac, i2, n) ==
  /\ Len(int) + Len(frac) >= 1
  /\ i2 <= Len(u) => u[i2] \in {"e", "E"}
  /\ ExponentExceeds(u, int, frac, i2 <= Len(u),
                     HasSign(u, i2 + 1) /\ u[i2 + 1] = "-",
                     IF HasSign(u, i2 + 1) THEN i2 + 2 ELSE i2 + 1, n)

\* Where the mantissa of u ends, its integer digits ending before i1: after
\* the point and the fraction digits, if there is a point at i1.
FractionEnd(u, i1) ==
  IF i1 <= Len(u) /\ u[i1] = "." THEN SkipWhile(u, i1 + 1, DecimalDigits)
  ELSE i1

\* The literal u, its mantissa being the integer digits before i1 and the
\* fraction digits between i1 and i2.
UnsignedExceeds(u, i1, i2, n) ==
  TailExceeds(u, SubSeq(u, 1, i1 - 1), SubSeq(u, i1 + 1, i2 - 1), i2, n)

\* Whether the unsigned decimal literal u (StrUnsignedDecimalLiteral)
\* exceeds n; a text that is no such literal is NaN and exceeds nothing.
LiteralExceeds(u, n) ==
  IF u = <<"I","n","f","i","n","i","t","y">> THEN TRUE
  ELSE UnsignedExceeds(u, SkipWhile(u, 1, DecimalDigits),
                       FractionEnd(u, SkipWhile(u, 1, DecimalDigits)), n)

\* Whether StringToNumber(s) > n, for 0 <= n < 2^28: s is trimmed; the
\* empty string is 0; a decimal literal with optional sign, fraction and
\* exponent, Infinity with optional sign, and an unsigned literal in base
\* 16, 8 or 2 are numbers; anything else is NaN, which exceeds nothing, as
\* do the negative numbers.
TrimmedExceeds(t, n) ==
  CASE t = <<>> -> FALSE
    [] t # <<>> /\ t[1] = "-" -> FALSE
    [] Len(t) >= 3 /\ t[1] = "0" /\ t[2] \in {"x", "X"} ->
         PrefixedExceeds(SubSeq(t, 3, Len(t)), 16, HexDigits, 7, n)
    [] Len(t) >= 3 /\ t[1] = "0" /\ t[2] \in {"o", "O"} ->
         PrefixedExceeds(SubSeq(t, 3, Len(t)), 8, {"0","1","2","3","4","5","6","7"}, 10, n)
    [] Len(t) >= 3 /\ t[1] = "0" /\ t[2] \in {"b", "B"} ->
         PrefixedExceeds(SubSeq(t, 3, Len(t)), 2, {"0","1"}, 30, n)
    [] OTHER ->
         LiteralExceeds(IF t[1] = "+" THEN SubSeq(t, 2, Len(t)) ELSE t, n)

StringExceeds(s, n) == TrimmedExceeds(Trim(s), n)

\* x > n (line 221) for a number n, 0 <= n < 2^28: whether it holds, or
\* the TypeError thrown.  x is converted to a primitive (an array by its
\* join, an object to "[object Object]" unless an own toString shadows the
\* method) and then to a number; undefined and the strings that are no
\* numbers give NaN, and every comparison with NaN is false.
GreaterThan(x, n) ==
  CASE x.t = "undefined" -> Value(FALSE)
    [] x.t = "null" -> Value(0 > n)
    [] x.t = "boolean" -> Value((IF x.v THEN 1 ELSE 0) > n)
    [] x.t = "number" -> Value(x.v > n)
    [] x.t \in {"string", "array"} ->
         LET s == StringOf(x)
         IN IF s.k = "throw" THEN s ELSE Value(StringExceeds(s.v, n))
    [] OTHER -> IF HasKey(x, "toString") THEN Thrown(NotPrimitive)
                ELSE Value(FALSE)

\* ----------------------------------------------------------- JSON text

\* The name of a property as characters, for serialisation.
KeyChars(key) ==
  CASE key = "error" -> <<"e","r","r","o","r">>
    [] key = "detail" -> <<"d","e","t","a","i","l">>
    [] key = "id" -> <<"i","d">>
    [] key = "stored" -> <<"s","t","o","r","e","d">>
    [] key = "memories" -> <<"m","e","m","o","r","i","e","s">>
    [] key = "count" -> <<"c","o","u","n","t">>
    [] key = "cursor" -> <<"c","u","r","s","o","r">>
    [] key = "content" -> <<"c","o","n","t","e","n","t">>
    [] key = "tags" -> <<"t","a","g","s">>
    [] key = "tier" -> <<"t","i","e","r">>
    [] key = "score" -> <<"s","c","o","r","e">>
    [] key = "user_id" -> <<"u","s","e","r","_","i","d">>
    [] key = "updated" -> <<"u","p","d","a","t","e","d">>
    [] key = "deleted" -> <<"d","e","l","e","t","e","d">>
    [] key = "length" -> <<"l","e","n","g","t","h">>

\* JSON.stringify of one character of a string (QuoteJSONString): the
\* double quote and the backslash take a backslash, the control characters
\* U+0008 to U+000D have the short forms \b \t \n \f \r (U+000B has none),
\* every other character below U+0020 is written \u00xx, a surrogate
\* (U+D800 to U+DFFF) that is not half of a pair is written \udxxx, and
\* every other character stands for itself.  A control character that
\* TLA+ has no escape for is written by its code point, "U0008".
ControlEscapes ==
  [c \in {"U0008", "\t", "U0009", "\n", "U000A", "\f", "U000C", "\r", "U000D"} |->
     CASE c = "U0008" -> <<"\\","b">>
       [] c \in {"\t", "U0009"} -> <<"\\","t">>
       [] c \in {"\n", "U000A"} -> <<"\\","n">>
       [] c \in {"\f", "U000C"} -> <<"\\","f">>
       [] c \in {"\r", "U000D"} -> <<"\\","r">>]

HexEscapes ==
  "U0000" :> <<"\\","u","0","0","0","0">>
  @@ "U0001" :> <<"\\","u","0","0","0","1">>
  @@ "U0002" :> <<"\\","u","0","0","0","2">>
  @@ "U0003" :> <<"\\","u","0","0","0","3">>
  @@ "U0004" :> <<"\\","u","0","0","0","4">>
  @@ "U0005" :> <<"\\","u","0","0","0","5">>
  @@ "U0006" :> <<"\\","u","0","0","0","6">>
  @@ "U0007" :> <<"\\","u","0","0","0","7">>
  @@ "U000B" :> <<"\\","u","0","0","0","b">>
  @@ "U000E" :> <<"\\","u","0","0","0","e">>
  @@ "U000F" :> <<"\\","u","0","0","0","f">>
  @@ "U0010" :> <<"\\","u","0","0","1","0">>
  @@ "U0011" :> <<"\\","u","0","0","1","1">>
  @@ "U0012" :> <<"\\","u","0","0","1","2">>
  @@ "U0013" :> <<"\\","u","0","0","1","3">>
  @@ "U0014" :> <<"\\","u","0","0","1","4">>
  @@ "U0015" :> <<"\\","u","0","0","1","5">>
  @@ "U0016" :> <<"\\","u","0","0","1","6">>
  @@ "U0017" :> <<"\\","u","0","0","1","7">>
  @@ "U0018" :> <<"\\","u","0","0","1","8">>
  @@ "U0019" :> <<"\\","u","0","0","1","9">>
  @@ "U001A" :> <<"\\","u","0","0","1","a">>
  @@ "U001B" :> <<"\\","u","0","0","1","b">>
  @@ "U001C" :> <<"\\","u","0","0","1","c">>
  @@ "U001D" :> <<"\\","u","0","0","1","d">>
  @@ "U001E" :> <<"\\","u","0","0","1","e">>
  @@ "U001F" :> <<"\\","u","0","0","1","f">>

HexUpper == <<"0","1","2","3","4","5","6","7","8","9","A","B","C","D","E","F">>
HexLower == <<"0","1","2","3","4","5","6","7","8","9","a","b","c","d","e","f">>

\* The surrogates whose second hexadecimal digit is one of HexUpper[hs],
\* each with its escape.
SurrogateTable(hs) ==
  {<<"UD" \o HexUpper[h] \o HexUpper[x] \o HexUpper[y],
     <<"\\", "u", "d", HexLower[h], HexLower[x], HexLower[y]>>>> :
     h \in hs, x \in 1..16, y \in 1..16}

\* U+D800 to U+DBFF and U+DC00 to U+DFFF.  A character written by its
\* code is five characters long in the model, any other is one.
Coded(c) == Len(c) = 5
HighSurrogates == {p[1] : p \in SurrogateTable(9..12)}
LowSurrogates == {p[1] : p \in SurrogateTable(13..16)}

SurrogateEscape(c) == (CHOOSE p \in SurrogateTable(9..16) : p[1] = c)[2]

\* The string of the one character c.
EscapeChar(c) ==
  CASE c = "\"" -> <<"\\","\"">>
    [] c = "\\" -> <<"\\","\\">>
    [] c \in DOMAIN ControlEscapes -> ControlEscapes[c]
    [] c \in DOMAIN HexEscapes -> HexEscapes[c]
    [] Coded(c) /\ c \in HighSurrogates \cup LowSurrogates -> SurrogateEscape(c)
    [] OTHER -> <<c>>

\* Whether the characters of s at i and i + 1 are a surrogate pair.
PairAt(s, i) ==
  /\ i >= 1
  /\ i < Len(s)
  /\ Coded(s[i]) /\ s[i] \in HighSurrogates
  /\ Coded(s[i + 1]) /\ s[i + 1] \in LowSurrogates

\* Whether the character of s at i is a surrogate that is not half of a
\* pair.
LoneSurrogateAt(s, i) ==
  /\ Coded(s[i]) /\ s[i] \in HighSurrogates \cup LowSurrogates
  /\ ~(PairAt(s, i) \/ PairAt(s, i - 1))

\* The conversion of a string to a USVString, as URLSearchParams takes its
\* names and values: a surrogate that is not half of a pair becomes U+FFFD.
ToUSVString(s) ==
  [i \in 1..Len(s) |-> IF LoneSurrogateAt(s, i) THEN "UFFFD" ELSE s[i]]

\* The character of s at i: the halves of a surrogate pair stand for
\* themselves.
EscapeAt(s, i) ==
  IF PairAt(s, i) \/ PairAt(s, i - 1) THEN <<s[i]>> ELSE EscapeChar(s[i])

Quote(s) == <<"\"">> \o Concat([i \in 1..Len(s) |-> EscapeAt(s, i)]) \o <<"\"">>

\* JSON.stringify: a property whose value is undefined is left out of an
\* object; undefined in an array is written null.
RECURSIVE JSONStringify(_)
JSONStringify(x) ==
  CASE x.t = "null" -> <<"n","u","l","l">>
    [] x.t = "undefined" -> <<"n","u","l","l">>
    [] x.t = "boolean" -> IF x.v THEN <<"t","r","u","e">> ELSE <<"f","a","l","s","e">>
    [] x.t = "number" -> NumToStr(x.v)
    [] x.t = "string" -> Quote(x.v)
    [] x.t = "array" ->
         <<"[">> \o Join([i \in 1..Len(x.v) |-> JSONStringify(x.v[i])], <<",">>) \o <<"]">>
    [] OTHER ->
         LET kept == SelectSeq(x.v, LAMBDA p : p[2].t # "undefined")
         IN <<"{">> \o Join([i \in 1..Len(kept) |->
                            Quote(KeyChars(kept[i][1])) \o <<":">> \o JSONStringify(kept[i][2])],
                         <<",">>) \o <<"}">>

\* JSON.parse(JSON.stringify(x)): what the backend decodes from a request
\* body: the properties with an undefined value are gone.
RECURSIVE Transmitted(_)
Transmitted(x) ==
  CASE x.t = "array" ->
         Arr([i \in 1..Len(x.v) |->
                IF x.v[i].t = "undefined" THEN Null ELSE Transmitted(x.v[i])])
    [] x.t = "object" ->
         LET kept == SelectSeq(x.v, LAMBDA p : p[2].t # "undefined")
         IN Obj([i \in 1..Len(kept) |-> <<kept[i][1], Transmitted(kept[i][2])>>])
    [] OTHER -> x

\* ---------------------------------------------------------- configuration

\* process.env.VELIXAR_USER_ID || "mcp-user"
USER_ID == Str(<<"m","c","p","-","u","s","e","r">>)
RECALL_LIMIT == 10
TIMEOUT_MS == 30000
\* body.slice(0, 200) in apiRequest; content.substring(0, 120) in velixar_list
BodySliceLen == 200
PreviewLen == 120

RecentUri == <<"v","e","l","i","x","a","r",":","/","/","m","e","m","o","r","i","e","s","/","r","e","c","e","n","t">>

\* ------------------------------------------------------------- apiRequest

\* An HTTP request as apiRequest hands it to fetch.  The query is the
\* URLSearchParams list of <<name, value>> pairs (its percent-encoding is
\* not modelled); the body is what the backend decodes from the JSON text,
\* or undefined.
Request(method, path, query, body) ==
  [method |-> method, path |-> path, query |-> query, body |-> body]

\* new URLSearchParams(record): the names of the record, which are the
\* code's own literals, with the values converted to USVStrings.
URLSearchParams(pairs) ==
  [i \in 1..Len(pairs) |-> <<pairs[i][1], ToUSVString(pairs[i][2])>>]

\* params.set(name, value) with one of the code's literal names: the value
\* is converted to a USVString; the value of an existing name is replaced,
\* a new name is appended.
ParamsSet(params, name, value) ==
  IF \E i \in 1..Len(params) : params[i][1] = name
  THEN [i \in 1..Len(params) |->
          IF params[i][1] = name THEN <<name, ToUSVString(value)>> ELSE params[i]]
  ELSE Append(params, <<name, ToUSVString(value)>>)

\* A response body on the wire: JSON text encoding a value, or text that is
\* no JSON, with or without a leading byte-order mark.
JsonBody(v) == [k |-> "json", v |-> v]
RawBody(text) == [k |-> "raw", text |-> text]

\* res.ok
ResOk(status) == status \in 200..299

\* The text of a body as res.text() and res.json() decode it: the runtime
\* strips one byte-order mark (U+FEFF) from the head of the body and its
\* decoder ignores one more, so up to two leading marks are dropped.
WithoutBOM(text) ==
  IF Len(text) > 1 /\ text[1] = "UFEFF" /\ text[2] = "UFEFF" THEN Tail(Tail(text))
  ELSE IF Len(text) > 0 /\ text[1] = "UFEFF" THEN Tail(text)
  ELSE text

\* res.text()
ResText(body) ==
  IF body.k = "json" THEN JSONStringify(body.v) ELSE WithoutBOM(body.text)

\* White space of JSON text.
JsonWhiteSpace == {" ", "\t", "\n", "\r", "U0009", "U000A", "U000D"}

\* V8's message for a token that JSON.parse does not expect, the character
\* at the 0-based position pos of the text: with the whole text when it is
\* shorter than 21 characters, with 10 characters of context on each side
\* of the position otherwise.
UnexpectedToken(text, pos) ==
  <<"U","n","e","x","p","e","c","t","e","d"," ","t","o","k","e","n"," ","'">> \o <<text[pos + 1]>> \o <<"'",","," ">>
  \o (IF Len(text) < 21 THEN <<"\"">> \o text \o <<"\"">>
      ELSE IF pos < 10 THEN <<"\"">> \o SubSeq(text, 1, pos + 10) \o <<"\"",".",".",".">>
      ELSE IF pos < Len(text) - 10
      THEN <<".",".",".","\"">> \o SubSeq(text, pos - 9, pos + 10) \o <<"\"",".",".",".">>
      ELSE <<".",".",".","\"">> \o SubSeq(text, pos - 9, Len(text)) \o <<"\"">>)
  \o <<" ","i","s"," ","n","o","t"," ","v","a","l","i","d"," ","J","S","O","N">>

UnexpectedEnd == <<"U","n","e","x","p","e","c","t","e","d"," ","e","n","d"," ","o","f"," ","J","S","O","N"," ","i","n","p","u","t">>

\* The texts that V8 reports whole.
SpecialTexts == {<<"[","o","b","j","e","c","t"," ","O","b","j","e","c","t","]">>, <<"u","n","d","e","f","i","n","e","d">>, <<"I","n","f","i","n","i","t","y">>, <<"N","a","N">>}

\* The literal that a JSON value starting with the character c must be.
JsonLiteral(c) ==
  CASE c = "t" -> <<"t","r","u","e">>
    [] c = "f" -> <<"f","a","l","s","e">>
    [] c = "n" -> <<"n","u","l","l">>

\* The text departs at the index q from the literal it started: the
\* character there is reported, or the end of input when the text stops
\* inside the literal.
DepartureMessage(text, q) ==
  CASE q > Len(text) -> UnexpectedEnd
    [] q <= Len(text) /\ text[q] \notin DecimalDigits \cup {"\"", "-"} ->
         UnexpectedToken(text, q - 1)

\* The text starts the literal lit at the index p.
LiteralMessage(text, p, lit) ==
  DepartureMessage(text,
    p - 1 + Least({i \in 1..Len(lit) : p + i - 1 > Len(text) \/ text[p + i - 1] # lit[i]}))

\* The text has its first character after the white space at the index p.
StartMessage(text, p) ==
  CASE p > Len(text) -> UnexpectedEnd
    [] p <= Len(text) /\ text \in SpecialTexts ->
         <<"\"">> \o text \o <<"\""," ","i","s"," ","n","o","t"," ","v","a","l","i","d"," ","J","S","O","N">>
    [] p <= Len(text) /\ text \notin SpecialTexts
       /\ text[p] \notin DecimalDigits \cup {"\"", "-", "{", "[", "t", "f", "n"} ->
         UnexpectedToken(text, p - 1)
    [] p <= Len(text) /\ text[p] \in {"t", "f", "n"} ->
         LiteralMessage(text, p, JsonLiteral(text[p]))

\* The message of the SyntaxError of JSON.parse(text) for a text that is no
\* JSON (V8's wording).  Modelled are the texts that fail where the value
\* starts: the text is empty or white space; or it is one of the strings
\* V8 reports whole; or its first character after the white space cannot
\* start a value; or it starts like true, false or null and departs from
\* the literal, where the departing character is reported, or the end of
\* input when the text stops inside the literal.  Not modelled (no case
\* above) are the texts that fail further in: those that start with a
\* double quote, a digit, a minus sign, a brace or a bracket, and a
\* literal followed by a digit, a minus sign or a double quote, or by
\* anything once it is complete.
JsonParseMessage(text) == StartMessage(text, SkipWhile(text, 1, JsonWhiteSpace))

\* res.json(): the decoded value, or a SyntaxError for text that is no
\* JSON; the text is parsed without its leading byte-order marks.
ResJson(body) ==
  IF body.k = "json" THEN Value(body.v)
  ELSE Thrown(Err("SyntaxError", JsonParseMessage(WithoutBOM(body.text))))

\* What fetch rejects with: a network failure, or the abort of the timer.
FetchFailed == Err("TypeError", <<"f","e","t","c","h"," ","f","a","i","l","e","d">>)
\* What res.json() rejects with when the connection breaks in the body.
BodyTerminated == Err("TypeError", <<"t","e","r","m","i","n","a","t","e","d">>)
AbortError == Err("AbortError", <<"T","h","i","s"," ","o","p","e","r","a","t","i","o","n"," ","w","a","s"," ","a","b","o","r","t","e","d">>)

\* catch (e) of apiRequest: an abort becomes the timeout error, anything
\* else is rethrown.
ApiCatch(e) ==
  IF e.name = "AbortError"
  THEN Err("Error", <<"A","P","I"," ","t","i","m","e","o","u","t"," ","a","f","t","e","r"," ">> \o NumToStr(TIMEOUT_MS) \o <<"m","s">>)
  ELSE e

\* apiRequest when fetch rejects with e.
ApiFetchRejected(e) == Thrown(ApiCatch(e))

\* An apiRequest that reported only the status of a response that is not ok.
ApiNotOkStatusOnly(status, text) ==
  Thrown(ApiCatch(Err("Error", <<"A","P","I"," ">> \o NumToStr(status))))

\* apiRequest on a response that is not ok, whose text was read as `text`
\* (the empty string when reading it failed).
ApiNotOk(status, text) ==
  Thrown(ApiCatch(Err("Error", <<"A","P","I"," ">> \o NumToStr(status) \o <<":"," ">>
                               \o Slice(text, BodySliceLen))))

\* apiRequest on an ok response: `return res.json()` leaves the try block
\* before the body is read, so a rejection of res.json() passes the catch by.
ApiOk(body) == ResJson(body)

\* apiRequest on an ok response whose body breaks off: res.json() rejects
\* with e, and the promise apiRequest returned rejects with it.
ApiBodyRejected(e) == Thrown(e)

\* ---------------------------------------------------------------- results

\* A handler's outcome: a result returned to the protocol layer, or an
\* error raised to it.
ToolResult(text, isError) == [k |-> "return", text |-> text, isError |-> isError]
Raised(e) == [k |-> "raise", e |-> e]

\* TypeError of a property read on undefined or null (V8's wording).
ReadOfNullish(x, key) ==
  Err("TypeError", <<"C","a","n","n","o","t"," ","r","e","a","d"," ","p","r","o","p","e","r","t","i","e","s"," ","o","f"," ">> \o StringOf(x).v
                   \o <<" ","(","r","e","a","d","i","n","g"," ","'">> \o key \o <<"'",")">>)

NotAFunction(what) == Err("TypeError", what \o <<" ","i","s"," ","n","o","t"," ","a"," ","f","u","n","c","t","i","o","n">>)

NoMemoriesText == <<"N","o"," ","m","e","m","o","r","i","e","s"," ","f","o","u","n","d",".">>

UnknownToolNote == <<"\n\nNote: Velixar MCP tools are only available in the primary agent context. If you're seeing this in a subagent, memory operations must be handled by the primary agent.">>

HelpText == <<"\n\nNote: Velixar MCP tools are only available in the primary agent context. If you're using subagents, handle memory operations in the primary agent before/after delegating other tasks.">>

\* ` [${m.tags.join(", ")}]` or "" (lines 88 and 220); m is not nullish.
TagsText(m) ==
  LET tags == Get(m, "tags")
  IN IF Nullish(tags) \/ ~Truthy(Length(tags)) THEN Value(<<>>)
     ELSE IF tags.t # "array" THEN Thrown(NotAFunction(<<"m",".","t","a","g","s",".","j","o","i","n">>))
     ELSE Template(<< Value(<<" ","[">>),
                      MapJoin([i \in 1..Len(tags.v) |->
                                 IF Nullish(tags.v[i]) THEN Value(<<>>)
                                 ELSE StringOf(tags.v[i])], <<","," ">>),
                      Value(<<"]">>) >>)

\* ------------------------------------------------------------ fetchRecall

\* The request of fetchRecall (lines 61-62).
RecallRequest ==
  Request("GET", <<"/","m","e","m","o","r","y","/","l","i","s","t">>,
          URLSearchParams(<< <<"user_id", USER_ID.v>>,
                             <<"limit", NumToStr(RECALL_LIMIT)>> >>),
          Undefined)

\* A fetchRecall that stores result.memories as it came, without the
\* fallback to the empty list.
FetchRecallStoreAsReceived(api) ==
  IF api.k = "throw" THEN Arr(<<>>)
  ELSE IF Nullish(api.v) THEN Arr(<<>>)
  ELSE Get(api.v, "memories")

\* The value fetchRecall stores in the slot for the outcome `api` of its
\* apiRequest (lines 63-65): result.memories || [], and [] when apiRequest
\* or the property read throws.
FetchRecallStore(api) ==
  IF api.k = "throw" THEN Arr(<<>>)
  ELSE IF Nullish(api.v) THEN Arr(<<>>)
  ELSE IF Truthy(Get(api.v, "memories")) THEN Get(api.v, "memories")
  ELSE Arr(<<>>)

\* ---------------------------------------------------- resource handlers

\* ListResources (lines 72-82): the resources advertised, or the TypeError
\* of the description's template literal.
ListResourcesResult(autoRecall, slot) ==
  IF ~autoRecall \/ Nullish(slot) \/ ~Truthy(Length(slot))
  THEN [k |-> "return", resources |-> <<>>]
  ELSE LET description ==
             Template(<< StringOf(Length(slot)),
                         Value(<<" ","m","o","s","t"," ","r","e","c","e","n","t"," ","m","e","m","o","r","i","e","s"," ","f","r","o","m"," ","y","o","u","r"," ","V","e","l","i","x","a","r"," ","m","e","m","o","r","y"," ","s","t","o","r","e">>) >>)
       IN IF description.k = "throw" THEN Raised(description.e)
          ELSE [k |-> "return",
                resources |-> << [uri |-> RecentUri, description |-> description.v] >>]

ReadResult(uri, text) == [k |-> "return", uri |-> uri, text |-> text]

\* The callback of the map of lines 87-91 on one memory.
RecallLine(m) ==
  IF Nullish(m) THEN Thrown(ReadOfNullish(m, <<"t","a","g","s">>))
  ELSE LET tags == TagsText(m)
           tier == IF ~Nullish(Get(m, "tier"))
                   THEN Template(<< Value(<<" ","(","t","i","e","r"," ">>), StringOf(Get(m, "tier")), Value(<<")">>) >>)
                   ELSE Value(<<>>)
       IN IF tags.k = "throw" THEN tags
          ELSE IF tier.k = "throw" THEN tier
          ELSE Template(<< StringOf(Get(m, "content")), tags, tier >>)

\* ReadResource of velixar://memories/recent once the slot has been looked
\* at (lines 87-98).
ReadRecent(slot) ==
  LET list == IF Truthy(slot) THEN slot ELSE Arr(<<>>)
  IN IF list.t # "array"
     THEN Raised(NotAFunction(<<"(","_","r","e","c","a","l","l","e","d","M","e","m","o","r","i","e","s"," ","|","|"," ","[","]",")",".","m","a","p">>))
     ELSE LET text == MapJoin([i \in 1..Len(list.v) |-> RecallLine(list.v[i])],
                              <<"\n","-","-","-","\n">>)
          IN IF text.k = "throw" THEN Raised(text.e)
             ELSE ReadResult(RecentUri,
                             IF Len(text.v) > 0 THEN text.v ELSE NoMemoriesText)

\* Line 100.
UnknownResource(uri) == Raised(Err("Error", <<"U","n","k","n","o","w","n"," ","r","e","s","o","u","r","c","e",":"," ">> \o uri))

\* ------------------------------------------------------- CallTool handler

StoreTool == <<"v","e","l","i","x","a","r","_","s","t","o","r","e">>
SearchTool == <<"v","e","l","i","x","a","r","_","s","e","a","r","c","h">>
DeleteTool == <<"v","e","l","i","x","a","r","_","d","e","l","e","t","e">>
ListTool == <<"v","e","l","i","x","a","r","_","l","i","s","t">>
UpdateTool == <<"v","e","l","i","x","a","r","_","u","p","d","a","t","e">>
Tools == {StoreTool, SearchTool, DeleteTool, ListTool, UpdateTool}

\* The first property of args each branch reads.
FirstRead(name) ==
  CASE name = StoreTool -> <<"c","o","n","t","e","n","t">>
    [] name = SearchTool -> <<"q","u","e","r","y">>
    [] name = DeleteTool -> <<"i","d">>
    [] name = ListTool -> <<"l","i","m","i","t">>
    [] name = UpdateTool -> <<"c","o","n","t","e","n","t">>

\* A store branch that took the default with `||`: a tier of 0 is lost.
StoreTierFalsy(args) ==
  IF Truthy(Get(args, "tier")) THEN Get(args, "tier") ELSE Num(2)

\* args.tier ?? 2
StoreTier(args) ==
  IF Nullish(Get(args, "tier")) THEN Num(2) ELSE Get(args, "tier")

\* The body object of velixar_store (lines 176-181).
StoreBody(args) ==
  Obj(<< <<"content", Get(args, "content")>>,
         <<"user_id", USER_ID>>,
         <<"tier", StoreTier(args)>>,
         <<"tags", IF Truthy(Get(args, "tags")) THEN Get(args, "tags")
                   ELSE Arr(<<>>)>> >>)

\* The body object of velixar_update (lines 229-231).
UpdateBody(args) ==
  Obj(<< <<"user_id", USER_ID>> >>
      \o (IF Truthy(Get(args, "content"))
          THEN << <<"content", Get(args, "content")>> >> ELSE <<>>)
      \o (IF Truthy(Get(args, "tags"))
          THEN << <<"tags", Get(args, "tags")>> >> ELSE <<>>))

\* if (args.x) params.set("x", String(args.x)), and for the cursor
\* params.set("cursor", args.cursor), which converts the same way: the
\* pairs, or the TypeError of the conversion.
WithParam(params, args, key) ==
  IF Truthy(Get(args, key))
  THEN LET value == StringOf(Get(args, key))
       IN IF value.k = "throw" THEN value
          ELSE Value(ParamsSet(params, key, value.v))
  ELSE Value(params)

\* The query of velixar_search (lines 189-190).
SearchQuery(args) ==
  LET q == StringOf(Get(args, "query"))
  IN IF q.k = "throw" THEN q
     ELSE WithParam(URLSearchParams(<< <<"q", q.v>>, <<"user_id", USER_ID.v>> >>),
                    args, "limit")

\* The query of velixar_list (lines 210-212).
ListQuery(args) ==
  LET limited == WithParam(URLSearchParams(<< <<"user_id", USER_ID.v>> >>), args, "limit")
  IN IF limited.k = "throw" THEN limited
     ELSE WithParam(limited.v, args, "cursor")

\* `/memory/${args.id}` (lines 204 and 232).
MemoryPath(args) == Template(<< Value(<<"/","m","e","m","o","r","y","/">>), StringOf(Get(args, "id")) >>)

\* The call of apiRequest with a path and a query that may have thrown:
\* the request, or the first throw.
Requested(method, path, query, body) ==
  IF path.k = "throw" THEN path
  ELSE IF query.k = "throw" THEN query
  ELSE [k |-> "request", req |-> Request(method, path.v, query.v, body)]

\* The unknown-tool result (lines 240-246).
UnknownTool(name) ==
  ToolResult(<<"U","n","k","n","o","w","n"," ","t","o","o","l",":"," ">> \o name \o UnknownToolNote, TRUE)

\* The handler up to its first suspension: the request it hands to
\* apiRequest, the error thrown before any request, or the result returned
\* without one.
ToolPrepare(name, args) ==
  IF name \notin Tools THEN [k |-> "return", result |-> UnknownTool(name)]
  ELSE IF Nullish(args) THEN Thrown(ReadOfNullish(args, FirstRead(name)))
  ELSE CASE name = StoreTool ->
              Requested("POST", Value(<<"/","m","e","m","o","r","y">>), Value(<<>>),
                        Transmitted(StoreBody(args)))
         [] name = SearchTool ->
              Requested("GET", Value(<<"/","m","e","m","o","r","y","/","s","e","a","r","c","h">>), SearchQuery(args), Undefined)
         [] name = DeleteTool ->
              Requested("DELETE", MemoryPath(args), Value(<<>>), Undefined)
         [] name = ListTool ->
              Requested("GET", Value(<<"/","m","e","m","o","r","y","/","l","i","s","t">>), ListQuery(args), Undefined)
         [] name = UpdateTool ->
              Requested("PATCH", MemoryPath(args), Value(<<>>),
                        Transmitted(UpdateBody(args)))

\* The callback of the map of velixar_search (lines 197-198).
SearchLine(m) ==
  IF Nullish(m) THEN Thrown(ReadOfNullish(m, <<"c","o","n","t","e","n","t">>))
  ELSE Template(<< Value(<<"U2022"," ">>), StringOf(Get(m, "content")),
                   IF Truthy(Get(m, "score"))
                   THEN Template(<< Value(<<" ","(","s","c","o","r","e",":"," ">>), StringOf(Get(m, "score")), Value(<<")">>) >>)
                   ELSE Value(<<>>) >>)

\* The callback of the map of velixar_list on a memory that is not nullish
\* (lines 220-222), `tags` being the outcome of line 220, `content` the
\* value of m.content and `long` the outcome of m.content.length > 120.
ListLineOf(m, tags, content, long) ==
  IF tags.k = "throw" THEN tags
  ELSE IF Nullish(content) THEN Thrown(ReadOfNullish(content, <<"l","e","n","g","t","h">>))
  ELSE IF long.k = "throw" THEN long
  ELSE IF long.v /\ content.t # "string"
  THEN Thrown(NotAFunction(<<"m",".","c","o","n","t","e","n","t",".","s","u","b","s","t","r","i","n","g">>))
  ELSE Template(<< Value(<<"U2022"," ">>), StringOf(Get(m, "id")), Value(<<":"," ">>),
                   IF long.v THEN Value(Slice(content.v, PreviewLen) \o <<"U2026">>)
                   ELSE StringOf(content),
                   tags >>)

\* The callback of the map of velixar_list (lines 219-223).
ListLine(m) ==
  IF Nullish(m) THEN Thrown(ReadOfNullish(m, <<"t","a","g","s">>))
  ELSE ListLineOf(m, TagsText(m), Get(m, "content"),
                  GreaterThan(Length(Get(m, "content")), PreviewLen))

\* A list branch that forgot the cursor line.
CursorLineDropped(result) == Value(<<>>)

\* `\nNext cursor: ${result.cursor}` or "" (line 224).
CursorLine(result) ==
  IF Truthy(Get(result, "cursor"))
  THEN Template(<< Value(<<"\n","N","e","x","t"," ","c","u","r","s","o","r",":"," ">>), StringOf(Get(result, "cursor")) >>)
  ELSE Value(<<>>)

\* The text of velixar_search (line 200) and of velixar_list (lines
\* 224-225) around the joined lines, or the TypeError of a conversion.
ListingText(name, result, lines) ==
  IF name = SearchTool
  THEN Template(<< Value(<<"F","o","u","n","d"," ">>), StringOf(Get(result, "count")),
                   Value(<<" ","m","e","m","o","r","i","e","s",":","\n">>), Value(lines) >>)
  ELSE LET cursor == CursorLine(result)
       IN Template(<< StringOf(Get(result, "count")), Value(<<" ","m","e","m","o","r","i","e","s",":">>), cursor,
                      Value(<<"\n">>), Value(lines) >>)

\* return { content: [{ type: "text", text }] } with a text that may have
\* thrown.
TextResult(text) ==
  IF text.k = "throw" THEN text ELSE ToolResult(text.v, FALSE)

\* The return of velixar_search (line 200) and velixar_list (lines 224-225)
\* after the map, whose outcome is `lines`.
ListingOf(name, result, lines) ==
  IF lines.k = "throw" THEN lines
  ELSE TextResult(ListingText(name, result, lines.v))

\* The rest of velixar_search (lines 194-200) and velixar_list (lines
\* 216-225) after the error check.
Listing(name, result) ==
  LET mems == Get(result, "memories")
  IN IF Nullish(mems) \/ ~Truthy(Length(mems))
     THEN ToolResult(NoMemoriesText, FALSE)
     ELSE IF mems.t # "array"
     THEN Thrown(NotAFunction(<<"r","e","s","u","l","t",".","m","e","m","o","r","i","e","s",".","m","a","p">>))
     ELSE ListingOf(name, result,
                    MapJoin([i \in 1..Len(mems.v) |->
                               IF name = SearchTool THEN SearchLine(mems.v[i])
                               ELSE ListLine(mems.v[i])], <<"\n">>))

\* throw new Error(message): the Error thrown, or the TypeError of the
\* conversion of the message to a string.
NewError(message) ==
  LET text == StringOf(message)
  IN IF text.k = "throw" THEN text ELSE Thrown(Err("Error", text.v))

\* The handler from the value apiRequest returned to its return or throw
\* inside the try block.
ToolFinish(name, args, result) ==
  IF Nullish(result) THEN Thrown(ReadOfNullish(result, <<"e","r","r","o","r">>))
  ELSE IF Truthy(Get(result, "error")) THEN NewError(Get(result, "error"))
  ELSE CASE name = StoreTool ->
              IF ~Truthy(Get(result, "id"))
              THEN Thrown(Err("Error", <<"S","t","o","r","e"," ","s","u","c","c","e","e","d","e","d"," ","b","u","t"," ","n","o"," ","I","D"," ","r","e","t","u","r","n","e","d">>))
              ELSE TextResult(Template(<< Value(<<"U2713"," ","S","t","o","r","e","d"," ","m","e","m","o","r","y"," ","(","i","d",":"," ">>),
                                          StringOf(Get(result, "id")), Value(<<")">>) >>))
         [] name \in {SearchTool, ListTool} -> Listing(name, result)
         [] name = DeleteTool ->
              TextResult(Template(<< Value(<<"U2713"," ","D","e","l","e","t","e","d"," ","m","e","m","o","r","y",":"," ">>),
                                     StringOf(Get(args, "id")) >>))
         [] name = UpdateTool ->
              TextResult(Template(<< Value(<<"U2713"," ","U","p","d","a","t","e","d"," ","m","e","m","o","r","y",":"," ">>),
                                     StringOf(Get(args, "id")) >>))

\* A handler without its catch block: the error reaches the protocol layer.
ToolCatchRethrows(e) == Raised(e)

\* catch (error) of the handler (lines 247-258).
ToolCatch(e) ==
  ToolResult(<<"E","r","r","o","r",":"," ">> \o e.message
             \o (IF Includes(e.message, <<"t","o","o","l">>) \/ Includes(e.message, <<"n","o","t"," ","f","o","u","n","d">>)
                 THEN HelpText ELSE <<>>),
             TRUE)

\* The outcome of an invocation that stops before any request.
ToolEarly(prep) ==
  IF prep.k = "throw" THEN ToolCatch(prep.e) ELSE prep.result

\* The outcome of an invocation whose apiRequest ended as `api`.
ToolResume(name, args, api) ==
  IF api.k = "throw" THEN ToolCatch(api.e)
  ELSE LET done == ToolFinish(name, args, api.v)
       IN IF done.k = "throw" THEN ToolCatch(done.e) ELSE done

\* ----------------------------------------------------------------- inputs

\* The number of resource requests (ListResources, ReadResource) that may
\* be in flight together.
NumReaders == 2

\* The number of tool invocations that may be in flight together.
NumCallers == 1

\* The number of requests of either kind that the client has in flight
\* together: it sends a further request once it holds the response to one.
MaxInFlight == 2

Pad == [i \in 1..BodySliceLen |-> "x"]
LongContent == [i \in 1..(PreviewLen + 1) |-> "y"]

M1 == Obj(<< <<"id", Str(<<"m","1">>)>>, <<"content", Str(<<"h","i">>)>>,
             <<"tags", Arr(<<Str(<<"a">>), Str(<<"b">>)>>)>>, <<"tier", Num(0)>> >>)
M2 == Obj(<< <<"id", Str(<<"m","2">>)>>, <<"content", Str(<<"d","b">>)>>,
             <<"score", Num(1)>> >>)
M3 == Obj(<< <<"id", Str(<<"m","3">>)>>, <<"content", Str(<<>>)>> >>)
M5 == Obj(<< <<"id", Str(<<"m","5">>)>>,
             <<"content", Obj(<< <<"toString", Num(1)>> >>)>> >>)
M4 == Obj(<< <<"id", Str(<<"m","4">>)>>, <<"content", Str(LongContent)>>,
             <<"tags", Arr(<<>>)>>, <<"tier", Num(2)>> >>)

MemoriesBody(list, count) ==
  JsonBody(Obj(<< <<"memories", Arr(list)>>, <<"count", Num(count)>> >>))
PageBody(list, count, cursor) ==
  JsonBody(Obj(<< <<"memories", Arr(list)>>, <<"count", Num(count)>>,
                  <<"cursor", Str(cursor)>> >>))
ErrorBody(message) == JsonBody(Obj(<< <<"error", Str(message)>> >>))

\* The bodies the backend may send with a status that is not ok, whatever
\* the request: apiRequest reads them as text only.
ErrorBodies ==
  { RawBody(<<>>),
    RawBody(<<"UFEFF","UFEFF","o","o","p","s">>),
    RawBody(<<"n","o","t"," ","f","o","u","n","d">>),
    ErrorBody(<<"b","a","d"," ","r","e","q","u","e","s","t">>),
    JsonBody(Obj(<< <<"detail", Str(Pad)>>, <<"error", Str(<<"b","a","d"," ","r","e","q","u","e","s","t">>)>> >>)) }

\* The bodies the backend may send with an ok status, whatever the request.
Bodies ==
  { RawBody(<<>>),
    RawBody(<<"n","o","t"," ","f","o","u","n","d">>),
    RawBody(<<"UFEFF","o","o","p","s">>),
    JsonBody(Null),
    JsonBody(Obj(<< <<"id", Str(<<"m","1">>)>>, <<"stored", Bool(TRUE)>> >>)),
    JsonBody(Obj(<< <<"updated", Bool(TRUE)>> >>)),
    ErrorBody(<<"b","a","d"," ","r","e","q","u","e","s","t">>),
    ErrorBody(<<"m","e","m","o","r","y"," ","n","o","t"," ","f","o","u","n","d">>),
    ErrorBody(<<>>),
    JsonBody(Obj(<< <<"error", Obj(<< <<"toString", Num(1)>> >>)>> >>)),
    JsonBody(Obj(<< <<"detail", Str(Pad)>>, <<"error", Str(<<"b","a","d"," ","r","e","q","u","e","s","t">>)>> >>)),
    MemoriesBody(<<>>, 0),
    MemoriesBody(<<M1, M2>>, 2),
    MemoriesBody(<<M3>>, 1),
    MemoriesBody(<<M5>>, 1),
    PageBody(<<M1>>, 1, <<"c","1">>),
    PageBody(<<M4>>, 1, <<>>),
    PageBody(<<>>, 0, <<"c","2">>),
    JsonBody(Obj(<< <<"memories", Obj(<< <<"count", Num(1)>> >>)>> >>)),
    JsonBody(Obj(<< <<"memories",
                      Obj(<< <<"length", Obj(<< <<"toString", Num(1)>> >>)>> >>)>> >>)) }

Statuses == {200, 500}

Args(pairs) == Obj(pairs)

\* The invocations of CallTool: a tool name and the arguments, which the
\* protocol allows to be absent.
ToolCalls ==
  [name : {StoreTool}, args : {
     Args(<< <<"content", Str(<<"h","i">>)>> >>),
     Args(<< <<"content", Str(<<"h","i">>)>>, <<"tier", Num(0)>> >>),
     Args(<< <<"content", Str(<<"h","i">>)>>, <<"tier", Null>> >>),
     Args(<< <<"content", Str(<<"h","i">>)>>, <<"tier", Num(3)>>,
             <<"tags", Arr(<<Str(<<"a">>)>>)>> >>) }]
  \cup
  [name : {SearchTool}, args : {
     Args(<< <<"query", Str(<<"q">>)>>, <<"limit", Num(3)>> >>),
     Args(<< <<"query", Str(<<"q","UD800">>)>> >>) }]
  \cup
  [name : {DeleteTool}, args : {
     Undefined, Args(<< <<"id", Str(<<"m","1">>)>> >>),
     Args(<< <<"id", Obj(<< <<"toString", Null>> >>)>> >>) }]
  \cup
  [name : {ListTool}, args : {
     Undefined, Args(<<>>),
     Args(<< <<"limit", Num(5)>>, <<"cursor", Str(<<"c","0">>)>> >>),
     Args(<< <<"limit", Arr(<< Obj(<< <<"toString", Num(1)>> >>) >>)>> >>) }]
  \cup
  [name : {UpdateTool}, args : {
     Args(<< <<"id", Str(<<"m","1">>)>> >>),
     Args(<< <<"id", Str(<<"m","1">>)>>, <<"content", Str(<<"n","e","w">>)>>,
             <<"tags", Arr(<<Str(<<"x">>)>>)>> >>),
     Args(<< <<"id", Str(<<"m","1">>)>>, <<"content", Str(<<>>)>> >>),
     Args(<< <<"id", Str(<<"m","1">>)>>, <<"tags", Arr(<<>>)>> >>) }]
  \cup
  [name : {<<"v","e","l","i","x","a","r","_","r","e","c","a","l","l">>}, args : {Undefined}]

Uris == {RecentUri, <<"v","e","l","i","x","a","r",":","/","/","m","e","m","o","r","i","e","s","/","a","l","l">>}

\* ------------------------------------------------------------------ state

Startup == <<"startup", 0>>
Callers == {<<"tool", i>> : i \in 1..NumCallers}
Readers == {<<"read", i>> : i \in 1..NumReaders}
Handlers == Readers \cup Callers
Procs == Handlers \cup {Startup}
RecallProcs == Readers \cup {Startup}

None == [k |-> "none"]

VARIABLES
  AUTO_RECALL,        \* line 14, fixed at start
  recalledMemories,   \* _recalledMemories, the prefetch slot (line 56)
  pc,                 \* where each activity stands: the module's top level
                      \* for Startup ("init", then as a handler), and for a
                      \* handler "idle", "fetch" (awaiting fetch, timer
                      \* armed), "text" (awaiting res.text(), timer armed),
                      \* "json" (awaiting res.json(), timer cleared),
                      \* "resume" (a read about to go on after its await
                      \* of fetchRecall), "done"
  inv,                \* the request a handler is serving
  request,            \* the HTTP request an activity has issued
  response,           \* what the backend did with it: the status while
                      \* the body is awaited, and for a tool invocation
                      \* the whole of it until the result is delivered
  out,                \* a handler's outcome
  nreq,               \* HTTP requests issued by the activity
  readFrom            \* the slot value a read rendered its text from

vars == <<AUTO_RECALL, recalledMemories, pc, inv, request, response, out,
          nreq, readFrom>>

Init ==
  /\ AUTO_RECALL \in BOOLEAN
  /\ recalledMemories = Null
  /\ pc = [p \in Procs |-> IF p = Startup THEN "init" ELSE "idle"]
  /\ inv = [p \in Procs |-> None]
  /\ request = [p \in Procs |-> None]
  /\ response = [p \in Procs |-> None]
  /\ out = [p \in Procs |-> None]
  /\ nreq = [p \in Procs |-> 0]
  /\ readFrom = [p \in Procs |-> None]

\* The handlers are registered and the transport connected (lines 72-262)
\* after the startup call of fetchRecall (line 70).
Serving == pc[Startup] # "init"

\* A fetchRecall without the check of the flag.
RecallAlways(autoRecall) == TRUE

\* if (!AUTO_RECALL) return (line 59): whether fetchRecall goes on.
RecallEnabled(autoRecall) == autoRecall

\* A read that never fetches on demand.
NeedsFetchNever(slot) == FALSE

\* if (!_recalledMemories) await fetchRecall() (line 86): whether the read
\* calls fetchRecall.
NeedsFetch(slot) == ~Truthy(slot)

\* p calls apiRequest(req): fetch is issued and the timer armed.
Issue(p, req) ==
  /\ pc' = [pc EXCEPT ![p] = "fetch"]
  /\ request' = [request EXCEPT ![p] = [k |-> "sent", req |-> req]]
  /\ nreq' = [nreq EXCEPT ![p] = @ + 1]

\* fetchRecall() at the top level of the module (line 70).
StartupFetchRecall ==
  /\ pc[Startup] = "init"
  /\ IF RecallEnabled(AUTO_RECALL)
     THEN /\ Issue(Startup, RecallRequest)
     ELSE /\ pc' = [pc EXCEPT ![Startup] = "done"]
          /\ UNCHANGED <<request, nreq>>
  /\ UNCHANGED <<AUTO_RECALL, recalledMemories, inv, response, out, readFrom>>

\* The requests the client awaits the response to.
InFlight == {h \in Handlers : pc[h] # "idle"}

\* The client may send a request to the handler p.
Accepts(p) ==
  /\ Serving
  /\ pc[p] = "idle"
  /\ Cardinality(InFlight) < MaxInFlight

\* The ListResources handler (lines 72-82): it has no suspension point.
ListResources(p) ==
  /\ Accepts(p)
  /\ inv' = [inv EXCEPT ![p] = [k |-> "list"]]
  /\ out' = [out EXCEPT ![p] = ListResourcesResult(AUTO_RECALL, recalledMemories)]
  /\ pc' = [pc EXCEPT ![p] = "done"]
  /\ UNCHANGED <<AUTO_RECALL, recalledMemories, request, response, nreq,
                 readFrom>>

\* p renders the recent-memories resource from the slot value `slot`.
Render(p, slot) ==
  /\ out' = [out EXCEPT ![p] = ReadRecent(slot)]
  /\ readFrom' = [readFrom EXCEPT ![p] = [k |-> "slot", v |-> slot]]

\* The ReadResource handler up to its first suspension (lines 84-101).  A
\* populated slot is rendered at once.  Otherwise the handler awaits
\* fetchRecall(), which issues its request, or returns at once when
\* auto-recall is off: the await suspends the handler in both cases and
\* its continuation runs later ("resume").
ReadResource(p, uri) ==
  /\ Accepts(p)
  /\ inv' = [inv EXCEPT ![p] = [k |-> "read", uri |-> uri]]
  /\ IF uri # RecentUri
     THEN /\ out' = [out EXCEPT ![p] = UnknownResource(uri)]
          /\ pc' = [pc EXCEPT ![p] = "done"]
          /\ UNCHANGED <<request, nreq, readFrom>>
     ELSE IF ~NeedsFetch(recalledMemories)
     THEN /\ Render(p, recalledMemories)
          /\ pc' = [pc EXCEPT ![p] = "done"]
          /\ UNCHANGED <<request, nreq>>
     ELSE IF RecallEnabled(AUTO_RECALL)
     THEN /\ Issue(p, RecallRequest)
          /\ UNCHANGED <<out, readFrom>>
     ELSE /\ pc' = [pc EXCEPT ![p] = "resume"]
          /\ UNCHANGED <<request, nreq, out, readFrom>>
  /\ UNCHANGED <<AUTO_RECALL, recalledMemories, response>>

\* The continuation of the read after `await fetchRecall()` (line 86): it
\* renders from the slot as it is now (lines 87-98), whoever wrote it last.
Resume(p) ==
  /\ pc[p] = "resume"
  /\ Render(p, recalledMemories)
  /\ pc' = [pc EXCEPT ![p] = "done"]
  /\ UNCHANGED <<AUTO_RECALL, recalledMemories, inv, request, response, nreq>>

\* The CallTool handler up to its first suspension (lines 169-246).
CallTool(p, call) ==
  /\ Accepts(p)
  /\ inv' = [inv EXCEPT ![p] =
               [k |-> "call", name |-> call.name, args |-> call.args]]
  /\ LET prep == ToolPrepare(call.name, call.args)
     IN IF prep.k = "request"
        THEN /\ Issue(p, prep.req)
             /\ UNCHANGED out
        ELSE /\ out' = [out EXCEPT ![p] = ToolEarly(prep)]
             /\ pc' = [pc EXCEPT ![p] = "done"]
             /\ UNCHANGED <<request, nreq>>
  /\ UNCHANGED <<AUTO_RECALL, recalledMemories, response, readFrom>>

\* apiRequest of p has ended as `api` (a value or a throw) after the
\* backend did `resp`, and the code that awaited it runs.  The tool handler
\* builds its result, which depends on nothing but the invocation and
\* `api`.  fetchRecall stores into the slot (lines 63-65) and returns; the
\* read that awaited it resumes in a later step.
Complete(p, api, resp) ==
  /\ response' = [response EXCEPT ![p] = IF p \in Callers THEN resp ELSE None]
  /\ IF p \in Callers
     THEN /\ out' = [out EXCEPT ![p] = ToolResume(inv[p].name, inv[p].args, api)]
          /\ pc' = [pc EXCEPT ![p] = "done"]
          /\ UNCHANGED recalledMemories
     ELSE /\ recalledMemories' = FetchRecallStore(api)
          /\ pc' = [pc EXCEPT ![p] = IF p \in Readers THEN "resume" ELSE "done"]
          /\ UNCHANGED out
  /\ UNCHANGED <<AUTO_RECALL, inv, request, nreq, readFrom>>

\* fetch rejects: the network failed.
FetchFails(p) ==
  /\ pc[p] = "fetch"
  /\ Complete(p, ApiFetchRejected(FetchFailed), [k |-> "failed"])

\* The timer fires before the response: controller.abort() rejects fetch.
\* The callback of a timer runs when no continuation of a settled promise
\* is waiting to run, so not while a read is about to resume.
FetchTimeout(p) ==
  /\ pc[p] = "fetch"
  /\ \A r \in Readers : pc[r] # "resume"
  /\ Complete(p, ApiFetchRejected(AbortError), [k |-> "timeout"])

\* The status line and headers arrive: fetch resolves, and apiRequest goes
\* on to res.text() (not ok) or returns res.json() (ok), which clears the
\* timer in its finally block.
Responds(p, status) ==
  /\ pc[p] = "fetch"
  /\ pc' = [pc EXCEPT ![p] = IF ResOk(status) THEN "json" ELSE "text"]
  /\ response' = [response EXCEPT ![p] =
                    [k |-> "http", status |-> status, body |-> None]]
  /\ UNCHANGED <<AUTO_RECALL, recalledMemories, inv, request, out, nreq,
                 readFrom>>

\* The body of an ok response has arrived: res.json() settles.
JsonArrives(p, body) ==
  /\ pc[p] = "json"
  /\ Complete(p, ApiOk(body), [response[p] EXCEPT !.body = body])

\* The connection breaks before the body of an ok response is complete:
\* res.json() rejects.  The timer is cleared by then (line 45), so nothing
\* but the connection ends the wait.
JsonFails(p) ==
  /\ pc[p] = "json"
  /\ Complete(p, ApiBodyRejected(BodyTerminated),
              [response[p] EXCEPT !.body = [k |-> "unread"]])

\* The body of a response that is not ok has arrived: res.text() resolves.
TextArrives(p, body) ==
  /\ pc[p] = "text"
  /\ Complete(p, ApiNotOk(response[p].status, ResText(body)),
              [response[p] EXCEPT !.body = body])

\* res.text() rejects, because the connection broke or because the timer
\* fired and aborted it: .catch(() => "") makes the text empty.
TextFails(p) ==
  /\ pc[p] = "text"
  /\ Complete(p, ApiNotOk(response[p].status, <<>>),
              [response[p] EXCEPT !.body = [k |-> "unread"]])

\* The protocol layer sends the handler's response (or error) and the
\* handler is free for the next request.
Deliver(p) ==
  /\ pc[p] = "done"
  /\ pc' = [pc EXCEPT ![p] = "idle"]
  /\ inv' = [inv EXCEPT ![p] = None]
  /\ request' = [request EXCEPT ![p] = None]
  /\ response' = [response EXCEPT ![p] = None]
  /\ out' = [out EXCEPT ![p] = None]
  /\ nreq' = [nreq EXCEPT ![p] = 0]
  /\ readFrom' = [readFrom EXCEPT ![p] = None]
  /\ UNCHANGED <<AUTO_RECALL, recalledMemories>>

Next ==
  \/ StartupFetchRecall
  \/ \E p \in Readers : ListResources(p)
  \/ \E p \in Readers, uri \in Uris : ReadResource(p, uri)
  \/ \E p \in Readers : Resume(p)
  \/ \E p \in Callers, call \in ToolCalls : CallTool(p, call)
  \/ \E p \in Procs : FetchFails(p)
  \/ \E p \in Procs : FetchTimeout(p)
  \/ \E p \in Procs, status \in Statuses : Responds(p, status)
  \/ \E p \in Procs, body \in Bodies : JsonArrives(p, body)
  \/ \E p \in Procs : JsonFails(p)
  \/ \E p \in Procs, body \in ErrorBodies : TextArrives(p, body)
  \/ \E p \in Procs : TextFails(p)
  \/ \E p \in Handlers : Deliver(p)

Spec == Init /\ [][Next]_vars

\* ----------------------------------------------------------------- claims

Call(t) == inv[t]
Result(t) == out[t]
Backend(t) == response[t]
ToolDone(t) == pc[t] = "done"

\* The backend answered the tool invocation with a JSON body.
JsonAnswer(t) == Backend(t).k = "http" /\ Backend(t).body.k = "json"
OkAnswer(t) == Backend(t).k = "http" /\ ResOk(Backend(t).status)

\* The JSON body of the answer carries an error field, whatever it holds.
ErrorField(t) == JsonAnswer(t) /\ HasKey(Backend(t).body.v, "error")
ErrorValue(t) == Get(Backend(t).body.v, "error")

\* The error field holds a truthy value: `if (result.error)` is taken.
ErrorThrown(t) == ErrorField(t) /\ Truthy(ErrorValue(t))

\* The value of the error field as a string, or the TypeError of its
\* conversion.
ErrorText(t) == StringOf(ErrorValue(t))

\* The message of the error the handler catches for an error field of a
\* truthy value: the value as a string, or the message of the TypeError
\* when the value cannot be converted.
ErrorMessage(t) ==
  IF ErrorText(t).k = "ok" THEN ErrorText(t).v ELSE ErrorText(t).e.message

StartsWith(s, prefix) ==
  Len(prefix) <= Len(s) /\ SubSeq(s, 1, Len(prefix)) = prefix

\* The flagged result that reports an error of the given message: the
\* message after "Error: ", and the note on subagents after it when the
\* message mentions "tool" or "not found".
ErrorReport(message) ==
  [k |-> "return",
   text |-> <<"E","r","r","o","r",":"," ">> \o message
            \o (IF Includes(message, <<"t","o","o","l">>) \/ Includes(message, <<"n","o","t"," ","f","o","u","n","d">>)
                THEN HelpText ELSE <<>>),
   isError |-> TRUE]

\* The invocation has returned a result of the shape {text, isError}.
Returned(t) ==
  /\ Result(t).k = "return"
  /\ DOMAIN Result(t) = {"k", "text", "isError"}
  /\ Result(t).text \in Seq(STRING)
  /\ Result(t).isError \in BOOLEAN

\* The failure outcomes other than an error field: an unknown tool name, a
\* transport failure, a timeout, a status that is not ok, an ok body that
\* is no JSON, and a store response without an identifier.
OtherFailure(t) ==
  \/ Call(t).name \notin Tools
  \/ Backend(t).k \in {"failed", "timeout"}
  \/ Backend(t).k = "http" /\ ~ResOk(Backend(t).status)
  \/ OkAnswer(t) /\ Backend(t).body.k = "raw"
  \/ /\ OkAnswer(t) /\ JsonAnswer(t) /\ Call(t).name = StoreTool
     /\ (Nullish(Backend(t).body.v) \/ ~Truthy(Get(Backend(t).body.v, "id")))

\* C1 as stated: every tool invocation, whatever the tool name, the
\* arguments (absent ones too) and the backend's behaviour, returns
\* normally with a text payload and never raises to the protocol layer; the
\* result is flagged as an error after a transport failure, a timeout, a
\* status that is not ok, an ok response that carries an error field or is
\* no JSON, a store response without an identifier, and for an unknown
\* tool name.
C1_FlagsEveryErrorField ==
  \A t \in Callers :
    ToolDone(t) =>
      /\ Returned(t)
      /\ OtherFailure(t) => Result(t).isError
      /\ (OkAnswer(t) /\ ErrorField(t)) => Result(t).isError

\* C1 amended: every tool invocation returns normally with a text payload
\* and never raises to the protocol layer; the result is flagged after each
\* of the failures above, where an ok response counts as carrying an error
\* only if its error field holds a truthy value.  An error field that holds
\* a falsy value is passed over: delete and update then report success.
C1_NeverRaises ==
  \A t \in Callers :
    ToolDone(t) =>
      /\ Returned(t)
      /\ OtherFailure(t) => Result(t).isError
      /\ (OkAnswer(t) /\ ErrorThrown(t)) => Result(t).isError
      /\ (OkAnswer(t) /\ ErrorField(t) /\ ~ErrorThrown(t)
            /\ Call(t).name \in {DeleteTool, UpdateTool})
           => ~Result(t).isError

\* An invocation of a known tool answered 200 with an error message has
\* returned a flagged result.
C1_Witness ==
  \E t \in Callers :
    /\ ToolDone(t) /\ Call(t).name \in Tools
    /\ OkAnswer(t) /\ ErrorThrown(t)
    /\ Result(t).k = "return" /\ Result(t).isError

\* C2 as stated: for each of the five tools and every response whose body
\* carries an error field, whatever the status, the result is flagged and
\* its text contains the message of the error field.
C2_ErrorFieldAnyStatus ==
  \A t \in Callers :
    (ToolDone(t) /\ Call(t).name \in Tools /\ ErrorField(t)) =>
      /\ Result(t).k = "return" /\ Result(t).isError
      /\ ErrorText(t).k = "ok" => Includes(Result(t).text, ErrorText(t).v)

\* The text apiRequest read from the body of an answer that is not ok: the
\* empty string when the body could not be read.
BodyText(t) ==
  IF Backend(t).body.k = "unread" THEN <<>> ELSE ResText(Backend(t).body)

\* C2 amended: for each of the five tools, a response with an ok status
\* whose body carries an error field of a truthy value gives the error
\* report of that value as a string, or of "Cannot convert object to
\* primitive value" when the value is an object that cannot be converted
\* to one; an error field of a falsy value is
\* passed over, so that delete and update report success; a response with
\* any other status gives the error report of "API <status>: " and the
\* first 200 characters of the body text, whatever the body holds.
C2_ErrorFieldByStatus ==
  \A t \in Callers :
    (ToolDone(t) /\ Call(t).name \in Tools /\ Backend(t).k = "http") =>
      /\ (OkAnswer(t) /\ ErrorThrown(t)) =>
           Result(t) = ErrorReport(ErrorMessage(t))
      /\ (OkAnswer(t) /\ ErrorField(t) /\ ~ErrorThrown(t)
            /\ Call(t).name \in {DeleteTool, UpdateTool})
           => Result(t).k = "return" /\ ~Result(t).isError
      /\ ~OkAnswer(t) =>
           Result(t) = ErrorReport(<<"A","P","I"," ">> \o NumToStr(Backend(t).status) \o <<":"," ">>
                                   \o Slice(BodyText(t), BodySliceLen))

\* A 500 response whose body carries an error field has given a flagged
\* result that contains the message.
C2_Witness ==
  \E t \in Callers :
    /\ ToolDone(t) /\ Call(t).name \in Tools /\ ErrorField(t) /\ ~OkAnswer(t)
    /\ ErrorText(t).k = "ok"
    /\ Result(t).isError /\ Includes(Result(t).text, ErrorText(t).v)

\* C3 as stated: once the slot has left null its value never changes again.
C3_SingleShot ==
  [][recalledMemories # Null => recalledMemories' = recalledMemories]_vars

\* A read of velixar://memories/recent that p has answered.
RecentRead(p) ==
  /\ p \in Readers /\ pc[p] = "done"
  /\ inv[p].k = "read" /\ inv[p].uri = RecentUri

\* The tags of a memory, separated by a comma and a space; a tag that is
\* null or undefined shows as nothing.
RECURSIVE TagList(_)
TagList(tags) ==
  (IF Nullish(tags[1]) THEN <<>> ELSE StringOf(tags[1]).v)
  \o (IF Len(tags) = 1 THEN <<>> ELSE <<","," ">> \o TagList(Tail(tags)))

\* A memory as the resource shows it: the content, the tags in brackets if
\* it has any, and the tier in parentheses if it has one.
MemoryText(m) ==
  StringOf(Get(m, "content")).v
  \o (IF Get(m, "tags").t = "array" /\ Len(Get(m, "tags").v) > 0
      THEN <<" ","[">> \o TagList(Get(m, "tags").v) \o <<"]">> ELSE <<>>)
  \o (IF Nullish(Get(m, "tier")) THEN <<>>
      ELSE <<" ","(","t","i","e","r"," ">> \o StringOf(Get(m, "tier")).v \o <<")">>)

\* The memories of a list, one after the other with the separator line
\* between them.
RECURSIVE MemoriesText(_)
MemoriesText(ms) ==
  IF Len(ms) = 0 THEN <<>>
  ELSE IF Len(ms) = 1 THEN MemoryText(ms[1])
  ELSE MemoryText(ms[1]) \o <<"\n","-","-","-","\n">> \o MemoriesText(Tail(ms))

\* A value that has no text: an object with a field named toString, which
\* stands in the way of the conversion to a string, or a list that holds
\* such a value.
RECURSIVE Unprintable(_)
Unprintable(x) ==
  \/ x.t = "object" /\ HasKey(x, "toString")
  \/ x.t = "array" /\ \E i \in 1..Len(x.v) : Unprintable(x.v[i])

\* Whether the read can render the slot: it is a list, none of its entries
\* is null or undefined, the tags of an entry, if they have a length, are a
\* list, and the content, the tier and the tags of an entry have a text.
Renderable(slot) ==
  /\ slot.t = "array"
  /\ \A i \in 1..Len(slot.v) :
       /\ ~Nullish(slot.v[i])
       /\ \/ Nullish(Get(slot.v[i], "tags"))
          \/ ~Truthy(Length(Get(slot.v[i], "tags")))
          \/ /\ Get(slot.v[i], "tags").t = "array"
             /\ ~Unprintable(Get(slot.v[i], "tags"))
       /\ ~Unprintable(Get(slot.v[i], "tier"))
       /\ ~Unprintable(Get(slot.v[i], "content"))

\* C4 as stated: with auto-recall on, every response to a read of
\* velixar://memories/recent is computed from a populated slot, never from
\* the unfetched state; its text is the rendered memories of the slot, or
\* the placeholder when the slot is empty.
C4_ReadFromPopulatedSlot ==
  \A p \in Readers :
    (AUTO_RECALL /\ RecentRead(p)) =>
      /\ readFrom[p].v # Null
      /\ out[p].k = "return" =>
           out[p].text = IF Len(readFrom[p].v.v) = 0 THEN NoMemoriesText
                         ELSE MemoriesText(readFrom[p].v.v)

\* C4 amended: with auto-recall on, every response to a read of
\* velixar://memories/recent is computed from a populated slot, never from
\* the unfetched state, and a read that found the slot unfetched has no
\* response before its on-demand fetch has completed.  A slot the read can
\* render gives a text: the rendered memories, or the placeholder when that
\* rendering is empty (the slot is empty, or holds only a memory with empty
\* content, no tags and no tier).  A slot it cannot render (no list, a null
\* entry, tags that are no list, a content, tier or tag without a text)
\* gives no text: the read raises a TypeError.
C4_ReadFromPopulatedSlotOrEmptyText ==
  \A p \in Readers :
    /\ (AUTO_RECALL /\ RecentRead(p)) =>
         /\ readFrom[p].v # Null
         /\ IF Renderable(readFrom[p].v)
            THEN /\ out[p].k = "return"
                 /\ out[p].text = IF MemoriesText(readFrom[p].v.v) = <<>>
                                  THEN NoMemoriesText
                                  ELSE MemoriesText(readFrom[p].v.v)
            ELSE out[p].k = "raise" /\ out[p].e.name = "TypeError"
    /\ pc[p] \in {"fetch", "json", "text", "resume"} => out[p] = None
    /\ (AUTO_RECALL /\ pc[p] = "resume") => recalledMemories # Null

\* A read that found the slot unfetched while the startup prefetch was in
\* flight has fetched on demand and answered, the startup prefetch still
\* being in flight.
C4_Witness ==
  \E p \in Readers :
    /\ AUTO_RECALL /\ RecentRead(p) /\ out[p].k = "return"
    /\ nreq[p] = 1
    /\ pc[Startup] \in {"fetch", "json", "text"}
    /\ Len(readFrom[p].v.v) > 0

\* C5: with auto-recall off the slot stays null, every resource listing is
\* empty and fetchRecall issues no request, whatever was served.
C5_AutoRecallOff ==
  ~AUTO_RECALL =>
    /\ recalledMemories = Null
    /\ \A p \in RecallProcs : nreq[p] = 0 /\ request[p] = None
    /\ \A p \in Readers :
         (pc[p] = "done" /\ inv[p].k = "list") =>
           out[p].k = "return" /\ out[p].resources = <<>>

\* With auto-recall off, a listing and a read of the recent-memories
\* resource have been answered.
C5_Witness ==
  /\ ~AUTO_RECALL
  /\ \E p \in Readers : pc[p] = "done" /\ inv[p].k = "list"
  /\ \E p \in Readers : RecentRead(p) /\ out[p].k = "return"

\* C6 as stated: a read of velixar://memories/recent never fails because of
\* what the backend did, it returns a normal text response.
C6_ReadNeverFails ==
  \A p \in Readers : RecentRead(p) => out[p].k = "return"

\* C7 as stated: an invocation that names one of the five tools issues
\* exactly one HTTP request before it returns, whatever its arguments; any
\* other name issues none and returns a flagged result.
C7_OneRequestPerCall ==
  \A t \in Callers :
    ToolDone(t) =>
      IF Call(t).name \in Tools THEN nreq[t] = 1
      ELSE nreq[t] = 0 /\ Result(t).k = "return" /\ Result(t).isError

\* The store invocation has sent its request.
StoreSent(t) ==
  /\ inv[t].k = "call" /\ Call(t).name = StoreTool
  /\ request[t].k = "sent"
SentBody(t) == request[t].req.body

\* C8: the tier in the body a store invocation transmits is 2 when the
\* invocation gives no tier (none, or null), and the given tier otherwise;
\* a tier of 0 is transmitted as 0.
C8_StoreTier ==
  \A t \in Callers :
    StoreSent(t) =>
      /\ request[t].req.method = "POST"
      /\ HasKey(SentBody(t), "tier")
      /\ ~HasKey(Call(t).args, "tier") => Get(SentBody(t), "tier") = Num(2)
      /\ (HasKey(Call(t).args, "tier") /\ Get(Call(t).args, "tier") = Null)
           => Get(SentBody(t), "tier") = Num(2)
      /\ (HasKey(Call(t).args, "tier") /\ Get(Call(t).args, "tier").t = "number")
           => Get(SentBody(t), "tier") = Get(Call(t).args, "tier")

\* A store invocation with an explicit tier of 0 has transmitted tier 0.
C8_Witness ==
  \E t \in Callers :
    /\ StoreSent(t)
    /\ Get(Call(t).args, "tier") = Num(0)
    /\ Get(SentBody(t), "tier") = Num(0)

UpdateSent(t) ==
  /\ inv[t].k = "call" /\ Call(t).name = UpdateTool
  /\ request[t].k = "sent"

\* C9 as stated: the PATCH body of an update carries the user scope and, of
\* content and tags, exactly the fields the invocation supplied, each with
\* its supplied value.
C9_UpdateBodyExact ==
  \A t \in Callers :
    UpdateSent(t) =>
      /\ request[t].req.method = "PATCH"
      /\ Get(SentBody(t), "user_id") = USER_ID
      /\ \A f \in {"content", "tags"} :
           /\ HasKey(Call(t).args, f) =>
                HasKey(SentBody(t), f) /\ Get(SentBody(t), f) = Get(Call(t).args, f)
           /\ ~HasKey(Call(t).args, f) => ~HasKey(SentBody(t), f)

ListDone(t) == ToolDone(t) /\ Call(t).name = ListTool
NextCursor == <<"\n","N","e","x","t"," ","c","u","r","s","o","r",":"," ">>
HasCursor(t) == JsonAnswer(t) /\ Truthy(Get(Backend(t).body.v, "cursor"))
CursorToken(t) == StringOf(Get(Backend(t).body.v, "cursor")).v

\* C10 as stated: when the response to a list invocation includes a cursor
\* the text contains a "Next cursor" line with that token, and when it
\* includes none the text contains no such line.
C10_CursorLineWhenCursor ==
  \A t \in Callers :
    (ListDone(t) /\ OkAnswer(t) /\ JsonAnswer(t) /\ ~Nullish(Backend(t).body.v)) =>
      IF HasCursor(t)
      THEN Result(t).k = "return"
           /\ Includes(Result(t).text, NextCursor \o CursorToken(t))
      ELSE Result(t).k = "return" /\ ~Includes(Result(t).text, NextCursor)

\* The list invocation has rendered memory lines.
ListRendered(t) ==
  /\ ListDone(t) /\ Result(t).k = "return" /\ ~Result(t).isError
  /\ Result(t).text # NoMemoriesText
CountHeader(t) == StringOf(Get(Backend(t).body.v, "count")).v \o <<" ","m","e","m","o","r","i","e","s",":">>

\* C10 amended: when a list invocation renders memory lines (an ok response
\* without error, with at least one memory), a cursor in the response gives
\* the line "Next cursor: <token>" right after the count, and without a
\* cursor the first memory line follows the count directly.  A response
\* without memories gives the placeholder alone, cursor or not.
C10_CursorLineWhenRendered ==
  \A t \in Callers :
    /\ ListRendered(t) =>
         /\ OkAnswer(t) /\ JsonAnswer(t)
         /\ IF HasCursor(t)
            THEN StartsWith(Result(t).text,
                            CountHeader(t) \o NextCursor \o CursorToken(t) \o <<"\n","U2022"," ">>)
            ELSE StartsWith(Result(t).text, CountHeader(t) \o <<"\n","U2022"," ">>)
    /\ (ListDone(t) /\ OkAnswer(t) /\ JsonAnswer(t) /\ ~Nullish(Backend(t).body.v)
          /\ ~ErrorThrown(t)
          /\ Get(Backend(t).body.v, "memories") = Arr(<<>>))
         => Result(t) = ToolResult(NoMemoriesText, FALSE)

\* A list invocation answered with one memory and a cursor has rendered the
\* cursor line.
C10_Witness ==
  \E t \in Callers :
    /\ ListRendered(t) /\ HasCursor(t)
    /\ Includes(Result(t).text, NextCursor \o CursorToken(t))

\* A step in which fetchRecall issues its request.
PrefetchStarted == \E p \in RecallProcs : nreq'[p] > nreq[p]

\* The step is the startup call of fetchRecall, the first request of the
\* process on this path.
StartedAtStartup ==
  /\ pc[Startup] = "init" /\ pc'[Startup] = "fetch"
  /\ nreq[Startup] = 0
  /\ request'[Startup] = [k |-> "sent", req |-> RecallRequest]

\* The step is a handler p taking up a read of velixar://memories/recent
\* and issuing the request.
StartedByRead(p) ==
  /\ pc[p] = "idle" /\ pc'[p] = "fetch"
  /\ inv'[p] = [k |-> "read", uri |-> RecentUri]
  /\ request'[p] = [k |-> "sent", req |-> RecallRequest]

\* C11: fetchRecall issues a request only in the startup call, once, and
\* in a read of velixar://memories/recent that finds the slot null; each
\* such step issues one request.  Once the slot is populated, also with the
\* empty list a failed fetch leaves, no step issues another, and no tool
\* invocation, listing or read of another resource ever issues one.
C11_PrefetchStartedOnlyOnNull ==
  [][PrefetchStarted =>
       /\ Cardinality({p \in Procs : nreq'[p] > nreq[p]}) = 1
       /\ \A p \in Procs : nreq'[p] > nreq[p] => nreq'[p] = nreq[p] + 1
       /\ recalledMemories = Null
       /\ AUTO_RECALL
       /\ StartedAtStartup \/ \E p \in Readers : StartedByRead(p)
       /\ \A t \in Callers : pc'[t] = pc[t]]_vars

\* The one request of the startup call has failed and left the empty list
\* in the slot, and a read of velixar://memories/recent has been answered
\* from it without a request.
C11_Witness ==
  /\ recalledMemories = Arr(<<>>)
  /\ pc[Startup] = "done"
  /\ nreq[Startup] = 1
  /\ \E p \in Readers :
       RecentRead(p) /\ nreq[p] = 0 /\ out[p].k = "return"

\* What the scheduling of the program gives.  The timer of apiRequest
\* (line 25) fires in the end while it is armed: it is armed while fetch is
\* awaited, where it rejects fetch (its callback has its turn again and
\* again, between the runs of the continuations), and while res.text() is
\* awaited, where the abort rejects the reading of the body.  It is no
\* longer armed while res.json() is awaited: `return res.json()` (line 40)
\* leaves the try block with the promise still pending and the finally
\* block clears the timer (line 45).  The continuation of a read whose
\* await has ended runs.  Nothing is assumed of the backend.
TimerFires ==
  \A p \in Procs :
    /\ SF_vars(FetchTimeout(p))
    /\ WF_vars(TextFails(p))
    /\ WF_vars(Resume(p))

LiveSpec == Init /\ [][Next]_vars /\ TimerFires

\* C12 as stated: if the timer fires in the end for a request the backend
\* leaves unanswered, every tool invocation and every resource read
\* produces its response in the end, whether the backend never responds or
\* sends a response whose body never finishes arriving.
C12_EveryRequestAnswered ==
  \A p \in Handlers : (inv[p] # None) ~> (pc[p] = "done" /\ out[p] # None)
====
